---- MODULE Spec2Model ----
(***************************************************************************)
(* The genetic algorithm of sensorphalanx/ga, in its two variants:         *)
(*   "triangles"  src/monalisa_triangles/main.go  (triangle-set genome)    *)
(*   "pixels"     src/unnamed/part_000            (raw-pixel genome)       *)
(* The heap is explicit: mem maps an address to the content of a pixel     *)
(* buffer (image.RGBA.Pix) or of a triangle array, and a DNA value holds   *)
(* addresses, as the Go struct holds a pointer and a slice.                *)
(* Go indexes from 0 and TLA+ sequences from 1: unit i of the code is      *)
(* element i+1 of the sequence.                                            *)
(***************************************************************************)
EXTENDS Integers, Sequences, FiniteSets, TLC

VARIABLES variant, pc, mem, target, population, pool, next, child, bestDNA,
          generation, ret

vars == <<variant, pc, mem, target, population, pool, next, child, bestDNA,
          generation, ret>>

(***************************************************************************)
(* Program configuration (the package-level vars), scaled down.            *)
(***************************************************************************)
PopSize == 3

PoolSize == 1

NumTriangles == 2

FitnessLimit == 4

\* len(target.Pix) of the picture main loads, scaled down likewise
PixLen == 2

(***************************************************************************)
(* Bounds of the model.                                                    *)
(***************************************************************************)
\* the generation counter is followed up to this value
MaxGen == 2

\* longest buffer handed to diff on its own
MaxLen == 4

\* most units (bytes or triangles) of a genome handed to crossover on its own
MaxUnits == 3

\* largest population and largest fitness handed to getBest on its own
MaxPop == 3

MaxFit == 3

\* byte values of the generational loop: three bytes apart, so that the
\* distance tells 0, 1 and 2 differing bytes apart (0, 3, 4)
Bytes == {0, 3}

\* byte values handed to diff on its own: those of a, and those of b
SampleBytes == {0, 100, 255}
EdgeBytes == {0, 255}

Variants == {"triangles", "pixels"}

(***************************************************************************)
(* uint64 arithmetic, as eight base-256 limbs, least significant first.    *)
(***************************************************************************)
\* uint64(x) of a uint8 x
U64(x) == <<x, 0, 0, 0, 0, 0, 0, 0>>

RECURSIVE SubFrom(_, _, _, _)
SubFrom(a, b, i, borrow) ==
  IF i > Len(a) THEN <<>>
  ELSE LET t == a[i] - b[i] - borrow
       IN <<t % 256>> \o SubFrom(a, b, i + 1, IF t < 0 THEN 1 ELSE 0)

\* a - b on uint64: wraps modulo 2^64
U64Sub(a, b) == SubFrom(a, b, 1, 0)

RECURSIVE Column(_, _, _, _)
Column(a, b, k, i) ==
  IF i > k THEN 0 ELSE a[i] * b[k + 1 - i] + Column(a, b, k, i + 1)

RECURSIVE MulFrom(_, _, _, _)
MulFrom(a, b, k, carry) ==
  IF k > Len(a) THEN <<>>
  ELSE LET s == carry + Column(a, b, k, 1)
       IN <<s % 256>> \o MulFrom(a, b, k + 1, s \div 256)

\* a * b on uint64: wraps modulo 2^64
U64Mul(a, b) == MulFrom(a, b, 1, 0)

\* int64(u) of a uint64 u. Values of 2^31 and more are outside the integers
\* of the model checker: the evaluation then stops with an error.
Int64Of(u) ==
  IF u[4] < 128 /\ \A i \in 5..Len(u) : u[i] = 0
  THEN u[1] + 256 * u[2] + 65536 * u[3] + 16777216 * u[4]
  ELSE CHOOSE n \in {} : TRUE

squareDifferenceNarrow(x, y) ==
  LET d == U64((x - y) % 256) IN U64Mul(d, d)

squareDifference(x, y) ==
  LET d == U64Sub(U64(x), U64(y)) IN U64Mul(d, d)

RECURSIVE SqrtSearch(_, _, _)
SqrtSearch(n, lo, hi) ==
  IF lo >= hi THEN lo
  ELSE LET m == (lo + hi + 1) \div 2
       IN IF m * m <= n THEN SqrtSearch(n, m, hi) ELSE SqrtSearch(n, lo, m - 1)

\* int64(math.Sqrt(float64(d))): float64 holds every d below 2^53 exactly
\* and the square root is correctly rounded, so the truncation is the floor
\* of the real square root for the sums of the model (below 2^31).
FloorSqrt(d) == SqrtSearch(d, 0, IF d < 46340 THEN d ELSE 46340)

\* diff's loop from position i (0-based) with running sum d. The loop runs
\* over len(a.Pix); b.Pix[i] with i >= len(b.Pix) is Go's index-out-of-range
\* panic.
RECURSIVE DiffLoop(_, _, _, _)
DiffLoop(a, b, i, d) ==
  IF i >= Len(a) THEN [panicked |-> FALSE, d |-> FloorSqrt(d)]
  ELSE IF i >= Len(b) THEN [panicked |-> TRUE, d |-> 0]
  ELSE DiffLoop(a, b, i + 1, d + Int64Of(squareDifference(a[i + 1], b[i + 1])))

diff(a, b) == DiffLoop(a, b, 0, 0)

(***************************************************************************)
(* The heap. Alloc is Go's allocator (make, NewRGBA, &image.RGBA{...}): it *)
(* gives an address not in use. Collect drops what the program can no      *)
(* longer reach, as the garbage collector does.                            *)
(***************************************************************************)
Alloc(m) ==
  CHOOSE a \in 0..Cardinality(DOMAIN m) :
    a \notin DOMAIN m /\ \A b \in 0..(a - 1) : b \in DOMAIN m

Store(m, a, v) == [x \in DOMAIN m \cup {a} |-> IF x = a THEN v ELSE m[x]]

Collect(m, roots) == [a \in DOMAIN m \cap roots |-> m[a]]

\* the addresses a DNA value holds, in the order createDNA allocates them
AddrSeq(d) ==
  IF variant = "triangles" THEN <<d.Triangles, d.Gene>> ELSE <<d.Gene>>

Addrs(d) == {AddrSeq(d)[i] : i \in DOMAIN AddrSeq(d)}

AddrsOf(s) == UNION {Addrs(s[i]) : i \in DOMAIN s}

RECURSIVE Flatten(_)
Flatten(s) == IF s = <<>> THEN <<>> ELSE AddrSeq(Head(s)) \o Flatten(Tail(s))

\* Addresses are never compared or printed by the program. When a
\* generation ends (and when the population is sorted) the live objects are
\* renumbered in the order target, population[0], population[1], ...
Rename(order) ==
  [a \in {order[i] : i \in DOMAIN order} |->
     (CHOOSE i \in DOMAIN order :
        order[i] = a /\ \A j \in 1..(i - 1) : order[j] # a) - 1]

RenameDNA(rn, d) ==
  IF variant = "triangles"
  THEN [d EXCEPT !.Gene = rn[@], !.Triangles = rn[@]]
  ELSE [d EXCEPT !.Gene = rn[@]]

RenameSeq(rn, s) == [i \in DOMAIN s |-> RenameDNA(rn, s[i])]

RenameMem(rn, m) ==
  [b \in {rn[a] : a \in DOMAIN rn} |-> m[CHOOSE a \in DOMAIN rn : rn[a] = b]]

(***************************************************************************)
(* Genomes.  A pixel DNA is [Gene, Fitness]; a triangle DNA is             *)
(* [Gene, Triangles, Fitness].  The rasteriser (draw2d) is outside the     *)
(* repository: a triangle is modelled as covering one byte cell P1 of the  *)
(* buffer with an opaque colour, later triangles painting over earlier     *)
(* ones.                                                                   *)
(***************************************************************************)
Zeros(n) == [i \in 1..n |-> 0]

Buffers(n, bytes) == [1..n -> bytes]

\* createTriangle's results on a canvas of n cells
TriangleSet(n) == {[P1 |-> p, Color |-> 3] : p \in 0..(n - 1)}

RECURSIVE Paint(_, _, _)
Paint(dest, triangles, k) ==
  IF k > Len(triangles) THEN dest
  ELSE Paint([dest EXCEPT ![triangles[k].P1 + 1] = triangles[k].Color],
             triangles, k + 1)

draw(n, triangles) == Paint(Zeros(n), triangles, 1)

\* a calcFitness that stores a fitness only in the zero case
calcFitnessZeroOnly(m, d, tgt) ==
  LET difference == diff(m[d.Gene], m[tgt]).d
  IN IF difference = 0 THEN [d EXCEPT !.Fitness = 1] ELSE d

\* d.calcFitness(target): the value of d afterwards
calcFitness(m, d, tgt) ==
  LET difference == diff(m[d.Gene], m[tgt]).d
      d1 == IF difference = 0 THEN [d EXCEPT !.Fitness = 1] ELSE d
  IN [d1 EXCEPT !.Fitness = difference]

\* the units of d1 and d2 spliced at mid (0-based, as in the code)
Splice(u1, u2, mid) ==
  [i \in 1..Len(u1) |-> IF (i - 1) > mid THEN u1[i] ELSE u2[i]]

\* a crossover that writes the spliced units into d2's own storage
crossoverInPlace(m, d1, d2, mid) ==
  IF variant = "triangles"
  THEN LET tris == Splice(m[d1.Triangles], m[d2.Triangles], mid)
           m1 == [m EXCEPT ![d2.Triangles] = tris]
           g == Alloc(m1)
       IN [mem |-> Store(m1, g, draw(Len(m[d1.Gene]), tris)),
           dna |-> [Gene |-> g, Triangles |-> d2.Triangles, Fitness |-> 0]]
  ELSE [mem |-> [m EXCEPT ![d2.Gene] = Splice(m[d1.Gene], m[d2.Gene], mid)],
        dna |-> [Gene |-> d2.Gene, Fitness |-> 0]]

\* a crossover whose boundary unit comes from d1
crossoverInclusive(m, d1, d2, mid) ==
  IF variant = "triangles"
  THEN LET t == Alloc(m)
           tris == Splice(m[d1.Triangles], m[d2.Triangles], mid - 1)
           m1 == Store(m, t, tris)
           g == Alloc(m1)
       IN [mem |-> Store(m1, g, draw(Len(m[d1.Gene]), tris)),
           dna |-> [Gene |-> g, Triangles |-> t, Fitness |-> 0]]
  ELSE LET g == Alloc(m)
       IN [mem |-> Store(m, g, Splice(m[d1.Gene], m[d2.Gene], mid - 1)),
           dna |-> [Gene |-> g, Fitness |-> 0]]

\* crossover(d1, d2) with rand.Intn's result mid: the heap afterwards and
\* the child
crossover(m, d1, d2, mid) ==
  IF variant = "triangles"
  THEN LET t == Alloc(m)
           tris == Splice(m[d1.Triangles], m[d2.Triangles], mid)
           m1 == Store(m, t, tris)
           g == Alloc(m1)
       IN [mem |-> Store(m1, g, draw(Len(m[d1.Gene]), tris)),
           dna |-> [Gene |-> g, Triangles |-> t, Fitness |-> 0]]
  ELSE LET g == Alloc(m)
       IN [mem |-> Store(m, g, Splice(m[d1.Gene], m[d2.Gene], mid)),
           dna |-> [Gene |-> g, Fitness |-> 0]]

\* what mutate may draw for n units: per unit <<>> (rand.Float64() was not
\* below MutationRate) or <<u>> (the unit is replaced by u)
MutChoices(n, units) == [1..n -> {<<>>} \cup {<<u>> : u \in units}]

Replaced(units, muts) ==
  [i \in 1..Len(units) |-> IF muts[i] = <<>> THEN units[i] ELSE muts[i][1]]

\* d.mutate() with the draws muts: the heap afterwards and d
mutate(m, d, muts) ==
  IF variant = "triangles"
  THEN LET m1 == [m EXCEPT ![d.Triangles] = Replaced(@, muts)]
           g == Alloc(m1)
       IN [mem |-> Store(m1, g, draw(Len(m[d.Gene]), m1[d.Triangles])),
           dna |-> [d EXCEPT !.Gene = g]]
  ELSE [mem |-> [m EXCEPT ![d.Gene] = Replaced(@, muts)], dna |-> d]

\* the units of a genome and what mutate replaces them with
UnitsOf(m, d) == IF variant = "triangles" THEN m[d.Triangles] ELSE m[d.Gene]

MutUnits(m, d) ==
  IF variant = "triangles" THEN TriangleSet(Len(m[d.Gene])) ELSE Bytes

\* createDNA(target) with the random content unit (a pixel buffer, or a
\* triangle array)
createDNA(m, tgt, unit) ==
  IF variant = "triangles"
  THEN LET t == Alloc(m)
           m1 == Store(m, t, unit)
           g == Alloc(m1)
           m2 == Store(m1, g, draw(Len(m[tgt]), unit))
       IN [mem |-> m2,
           dna |-> calcFitness(m2, [Gene |-> g, Triangles |-> t, Fitness |-> 0], tgt)]
  ELSE LET g == Alloc(m)
           m1 == Store(m, g, unit)
       IN [mem |-> m1, dna |-> calcFitness(m1, [Gene |-> g, Fitness |-> 0], tgt)]

\* the random contents createDNA may draw for a target of n bytes
Genomes(n) ==
  IF variant = "triangles"
  THEN [1..NumTriangles -> TriangleSet(n)]
  ELSE Buffers(n, Bytes)

\* the one element of a singleton set
Only(S) == CHOOSE x \in S : TRUE

RECURSIVE PopulationLoop(_, _, _, _)
PopulationLoop(m, tgt, units, pop) ==
  IF Len(pop) >= Len(units) THEN [mem |-> m, population |-> pop]
  ELSE Only({PopulationLoop(c.mem, tgt, units, Append(pop, c.dna)) :
               c \in {createDNA(m, tgt, units[Len(pop) + 1])}})

createPopulation(m, tgt, units) == PopulationLoop(m, tgt, units, <<>>)

(***************************************************************************)
(* Selection.                                                              *)
(***************************************************************************)
\* sort.SliceStable by "Fitness <": a stable insertion of d into sorted s
RECURSIVE Insert(_, _)
Insert(s, d) ==
  IF s = <<>> THEN <<d>>
  ELSE IF d.Fitness < s[Len(s)].Fitness
       THEN Insert(SubSeq(s, 1, Len(s) - 1), d) \o <<s[Len(s)]>>
       ELSE s \o <<d>>

RECURSIVE SliceStable(_)
SliceStable(s) ==
  IF s = <<>> THEN <<>>
  ELSE Insert(SliceStable(SubSeq(s, 1, Len(s) - 1)), s[Len(s)])

\* the weight multiplier of createPool: "* 10" in the pixel variant only
Multiplier == IF variant = "pixels" THEN 10 ELSE 1

Repeat(d, n) == [i \in 1..n |-> d]

\* createPool's loop from i (0-based) over the first len(top)-1 genomes
RECURSIVE PoolLoop(_, _, _)
PoolLoop(top, i, pl) ==
  IF i >= Len(top) - 1 THEN pl
  ELSE LET num == (top[PoolSize + 1].Fitness - top[i + 1].Fitness) * Multiplier
       IN PoolLoop(top, i + 1, pl \o Repeat(top[i + 1], num))

\* a pool whose loop also weighs top[PoolSize] itself, once
createPoolOffByOne(pop) ==
  LET sorted == SliceStable(pop)
      top == SubSeq(sorted, 1, PoolSize + 1)
  IN [population |-> sorted,
      pool |-> PoolLoop(top, 0, <<>>) \o <<top[PoolSize + 1]>>]

\* createPool(population, target): the population as the in-place sort
\* leaves it, and the pool. "pool = population" shares the backing array,
\* which nothing writes afterwards.
createPool(pop) ==
  LET sorted == SliceStable(pop)
      top == SubSeq(sorted, 1, PoolSize + 1)
  IN IF variant = "triangles" /\ top[Len(top)].Fitness - top[1].Fitness = 0
     THEN [population |-> sorted, pool |-> sorted]
     ELSE [population |-> sorted, pool |-> PoolLoop(top, 0, <<>>)]

\* getBest's loop from i (0-based)
RECURSIVE BestLoop(_, _, _, _)
BestLoop(pop, i, best, index) ==
  IF i >= Len(pop) THEN pop[index + 1]
  ELSE IF pop[i + 1].Fitness > best
       THEN BestLoop(pop, i + 1, pop[i + 1].Fitness, i)
       ELSE BestLoop(pop, i + 1, best, index)

\* a getBest that also moves on ties
getBestLast(pop) ==
  LET RECURSIVE loop(_, _, _)
      loop(i, best, index) ==
        IF i >= Len(pop) THEN pop[index + 1]
        ELSE IF pop[i + 1].Fitness >= best
             THEN loop(i + 1, pop[i + 1].Fitness, i)
             ELSE loop(i + 1, best, index)
  IN loop(0, 0, 0)

getBest(pop) == BestLoop(pop, 0, 0, 0)

\* pool[rand.Intn(len(pool))]: the genomes a draw may give
Picks(pl) == {pl[r] : r \in 1..Len(pl)}

(***************************************************************************)
(* The generational loop (main).  pc is the position in it:                *)
(*   "check"    top of the loop body                                       *)
(*   "pool"     before createPool                                          *)
(*   "select"   top of naturalSelection's loop body                        *)
(*   "mutate"   before child.mutate()                                      *)
(*   "fitness"  before child.calcFitness(target)                           *)
(*   "done"     found = true: the loop has ended (CONVERGED)               *)
(*   "panic"    the run has aborted with a Go panic                        *)
(***************************************************************************)
Init ==
  /\ variant \in Variants
  /\ pc = "check"
  /\ target = 0
  /\ \E tp \in Buffers(PixLen, Bytes), units \in [1..PopSize -> Genomes(PixLen)] :
       \E c \in {createPopulation([a \in {0} |-> tp], 0, units)} :
         mem = c.mem /\ population = c.population
  /\ pool = <<>>
  /\ next = <<>>
  /\ child = <<>>
  /\ bestDNA = <<>>
  /\ generation = 0
  /\ ret = <<>>

\* the exit test of main
converged(best) == best.Fitness < FitnessLimit

\* what the program can still reach
Roots == {target} \cup AddrsOf(population) \cup AddrsOf(pool)
           \cup AddrsOf(next) \cup AddrsOf(bestDNA)

\* generation++; bestDNA := getBest(population); the exit test
Check ==
  /\ pc = "check"
  /\ generation < MaxGen
  /\ generation' = generation + 1
  /\ bestDNA' = <<getBest(population)>>
  /\ pc' = IF converged(getBest(population)) THEN "done" ELSE "pool"
  /\ UNCHANGED <<variant, mem, target, population, pool, next, child, ret>>

\* pool := createPool(population, target), and naturalSelection's
\* next := make([]DNA, len(population))
CreatePool ==
  /\ pc = "pool"
  /\ \E r \in {createPool(population)} :
       \E rn \in {Rename(<<target>> \o Flatten(r.population))} :
         /\ population' = RenameSeq(rn, r.population)
         /\ pool' = RenameSeq(rn, r.pool)
         /\ bestDNA' = RenameSeq(rn, bestDNA)
         /\ mem' = RenameMem(rn, mem)
  /\ next' = <<>>
  /\ pc' = "select"
  /\ UNCHANGED <<variant, target, child, generation, ret>>

\* naturalSelection's loop body, first part: the two draws from the pool
\* and child := crossover(a, b)
Crossover ==
  /\ pc = "select"
  /\ Len(next) < Len(population)
  /\ Len(pool) > 0
  /\ \E a \in Picks(pool), b \in Picks(pool) :
       \E mid \in 0..(Len(UnitsOf(mem, a)) - 1) :
         \E c \in {crossover(mem, a, b, mid)} :
           /\ child' = <<c.dna>>
           /\ mem' = Collect(c.mem, Roots \cup Addrs(c.dna))
  /\ pc' = "mutate"
  /\ UNCHANGED <<variant, target, population, pool, next, bestDNA,
                 generation, ret>>

\* rand.Intn(len(pool)) with an empty pool panics
SelectPanic ==
  /\ pc = "select"
  /\ Len(next) < Len(population)
  /\ Len(pool) = 0
  /\ pc' = "panic"
  /\ UNCHANGED <<variant, mem, target, population, pool, next, child,
                 bestDNA, generation, ret>>

\* child.mutate()
Mutate ==
  /\ pc = "mutate"
  /\ \E muts \in MutChoices(Len(UnitsOf(mem, child[1])), MutUnits(mem, child[1])) :
       \E u \in {mutate(mem, child[1], muts)} :
         /\ child' = <<u.dna>>
         /\ mem' = Collect(u.mem, Roots \cup Addrs(u.dna))
  /\ pc' = "fitness"
  /\ UNCHANGED <<variant, target, population, pool, next, bestDNA,
                 generation, ret>>

\* child.calcFitness(target); next[i] = child
Fitness ==
  /\ pc = "fitness"
  /\ next' = Append(next, calcFitness(mem, child[1], target))
  /\ child' = <<>>
  /\ pc' = "select"
  /\ UNCHANGED <<variant, mem, target, population, pool, bestDNA,
                 generation, ret>>

\* naturalSelection returns next; population := next; the loop body ends
Replace ==
  /\ pc = "select"
  /\ Len(next) >= Len(population)
  /\ \E rn \in {Rename(<<target>> \o Flatten(next))} :
       /\ population' = RenameSeq(rn, next)
       /\ mem' = RenameMem(rn, mem)
  /\ pool' = <<>>
  /\ next' = <<>>
  /\ bestDNA' = <<>>
  /\ pc' = "check"
  /\ UNCHANGED <<variant, target, child, generation, ret>>

Next ==
  Check \/ CreatePool \/ Crossover \/ SelectPanic \/ Mutate \/ Fitness \/ Replace

Spec == Init /\ [][Next]_vars

(***************************************************************************)
(* diff on its own: two buffers of lengths up to MaxLen that differ by at  *)
(* most one, a (bytes of SampleBytes) at address 1 and b (bytes of         *)
(* EdgeBytes) at address 0, and one call diff(a, b).                       *)
(***************************************************************************)
BuffersUpTo(n, bytes) == UNION {Buffers(k, bytes) : k \in 0..n}

InitDiff ==
  /\ variant = "pixels"
  /\ pc = "call"
  /\ target = 0
  /\ \E a \in BuffersUpTo(MaxLen, SampleBytes), b \in BuffersUpTo(MaxLen, EdgeBytes) :
       /\ Len(a) - Len(b) \in {-1, 0, 1}
       /\ mem = [x \in {0, 1} |-> IF x = 1 THEN a ELSE b]
  /\ population = <<>>
  /\ pool = <<>>
  /\ next = <<>>
  /\ child = <<>>
  /\ bestDNA = <<>>
  /\ generation = 0
  /\ ret = <<>>

DiffCall ==
  /\ pc = "call"
  /\ ret' = <<diff(mem[1], mem[target])>>
  /\ pc' = "returned"
  /\ UNCHANGED <<variant, mem, target, population, pool, next, child,
                 bestDNA, generation>>

SpecDiff == InitDiff /\ [][DiffCall]_vars

(***************************************************************************)
(* crossover on its own: two parents of 1..MaxUnits units each (or one     *)
(* parent drawn twice) and one call crossover(pool[0], pool[1]); ret holds *)
(* the mid that rand.Intn gave.                                            *)
(***************************************************************************)
UnitsFor(n) ==
  IF variant = "triangles" THEN [1..n -> TriangleSet(PixLen)] ELSE Buffers(n, Bytes)

CanvasFor(n) == IF variant = "triangles" THEN Zeros(PixLen) ELSE Zeros(n)

InitCrossover ==
  /\ variant \in Variants
  /\ pc = "call"
  /\ target = 0
  /\ \E n \in 1..MaxUnits :
       \E ua \in UnitsFor(n), ub \in UnitsFor(n), same \in BOOLEAN :
         \E c \in {createPopulation([a \in {0} |-> CanvasFor(n)], 0,
                                    IF same THEN <<ua>> ELSE <<ua, ub>>)} :
           /\ mem = c.mem
           /\ population = c.population
           /\ pool = <<c.population[1], c.population[Len(c.population)]>>
  /\ next = <<>>
  /\ child = <<>>
  /\ bestDNA = <<>>
  /\ generation = 0
  /\ ret = <<>>

CrossoverCall ==
  /\ pc = "call"
  /\ \E mid \in 0..(Len(UnitsOf(mem, pool[1])) - 1) :
       \E c \in {crossover(mem, pool[1], pool[2], mid)} :
         /\ child' = <<c.dna>>
         /\ mem' = c.mem
         /\ ret' = <<mid>>
  /\ pc' = "returned"
  /\ UNCHANGED <<variant, target, population, pool, next, bestDNA, generation>>

SpecCrossover == InitCrossover /\ [][CrossoverCall]_vars

(***************************************************************************)
(* getBest on its own: a population of 1..MaxPop genomes with any          *)
(* fitness in 0..MaxFit (genome i has its Gene at address i) and one call  *)
(* getBest(population).                                                    *)
(***************************************************************************)
InitGetBest ==
  /\ variant = "pixels"
  /\ pc = "call"
  /\ target = 0
  /\ \E n \in 1..MaxPop :
       \E fits \in [1..n -> 0..MaxFit] :
         /\ population = [i \in 1..n |-> [Gene |-> i, Fitness |-> fits[i]]]
         /\ mem = [a \in 0..n |-> Zeros(PixLen)]
  /\ pool = <<>>
  /\ next = <<>>
  /\ child = <<>>
  /\ bestDNA = <<>>
  /\ generation = 0
  /\ ret = <<>>

GetBestCall ==
  /\ pc = "call"
  /\ bestDNA' = <<getBest(population)>>
  /\ pc' = "returned"
  /\ UNCHANGED <<variant, mem, target, population, pool, next, child,
                 generation, ret>>

SpecGetBest == InitGetBest /\ [][GetBestCall]_vars

(***************************************************************************)
(* Properties.                                                             *)
(***************************************************************************)
\* positions at which createPool has run for the current generation
InSelection == pc \in {"select", "mutate", "fitness", "panic"}

\* every genome the loop holds: the population and the children so far
Genomes0 == population \o next

\* the K+1 lowest-fitness genomes of the (sorted) population share a fitness
Degenerate == population[PoolSize + 1].Fitness = population[1].Fitness

IsSorted(s) == \A i, j \in DOMAIN s : i < j => s[i].Fitness <= s[j].Fitness

RECURSIVE WeightSum(_, _)
WeightSum(s, i) ==
  IF i = 0 THEN 0
  ELSE (s[PoolSize + 1].Fitness - s[i].Fitness) * Multiplier + WeightSum(s, i - 1)

TopSet == {population[i] : i \in 1..(PoolSize + 1)}

\* the sum over all positions of the squared signed byte difference
RECURSIVE SquareSum(_, _, _)
SquareSum(a, b, i) ==
  IF i = 0 THEN 0
  ELSE (a[i] - b[i]) * (a[i] - b[i]) + SquareSum(a, b, i - 1)

\* C1: after calcFitness a genome whose buffer is byte-identical to the
\* target has Fitness 1, and every other genome has the metric's value.
C1_IdenticalGenomeHasFitnessOne ==
  \A i \in DOMAIN Genomes0 :
    Genomes0[i].Fitness =
      IF mem[Genomes0[i].Gene] = mem[target] THEN 1
      ELSE diff(mem[Genomes0[i].Gene], mem[target]).d

\* C2: when the K+1 lowest-fitness genomes share a fitness, createPool
\* returns the entire population as the pool, and naturalSelection does not
\* panic, in both variants.
C2_DegenerateFallback ==
  (InSelection /\ Degenerate) => (pool = population /\ pc # "panic")

\* C3: the loop leaves RUNNING for CONVERGED exactly at the first check at
\* which getBest(population).Fitness < FitnessLimit; at every earlier check
\* it goes on to build a pool and to replace the population; at convergence
\* every genome of the population is below FitnessLimit.
C3_LoopEndsAtFirstConvergedGeneration ==
  [][/\ pc = "check" =>
          pc' = IF getBest(population).Fitness < FitnessLimit
                THEN "done" ELSE "pool"
     /\ pc = "pool" => pc' = "select"
     /\ pc \in {"select", "mutate", "fitness"} =>
          pc' \in {"select", "mutate", "fitness", "check"}
     /\ pc = "select" /\ pc' = "check" =>
          Len(next) = PopSize /\ Len(population') = PopSize
     /\ pc' = "done" =>
          \A i \in DOMAIN population' : population'[i].Fitness < FitnessLimit
    ]_vars

\* what of C3 does not depend on naturalSelection completing: the exit test
C3_ExitTest ==
  [][/\ pc = "check" =>
          pc' = IF getBest(population).Fitness < FitnessLimit
                THEN "done" ELSE "pool"
     /\ pc' = "done" =>
          \A i \in DOMAIN population' : population'[i].Fitness < FitnessLimit
    ]_vars

\* C4 as claimed: the pool always has length sum_i weight_i and holds only
\* genomes among the first K+1 of the sorted population.
C4_PoolIsWeightSum ==
  InSelection =>
    /\ IsSorted(population)
    /\ Len(pool) = WeightSum(population, PoolSize)
    /\ Picks(pool) \subseteq TopSet

\* C4 as amended: the same, except that in the triangle variant, when
\* sorted[K] and sorted[0] have the same fitness, the pool is the entire
\* sorted population.
C4_PoolIsWeightSumOrFallback ==
  InSelection =>
    /\ IsSorted(population)
    /\ IF variant = "triangles" /\ Degenerate
       THEN pool = population
       ELSE /\ Len(pool) = WeightSum(population, PoolSize)
            /\ Picks(pool) \subseteq TopSet

C4_Witness ==
  /\ pc = "select"
  /\ ~Degenerate
  /\ Len(pool) = 4 * Multiplier
  /\ Picks(pool) = {population[1]}

\* C5: for buffers of equal length diff(a, b) is the integer square root of
\* the sum of the squared signed differences, also where b[i] > a[i]; so
\* diff(a, b) = diff(b, a), diff(a, a) = 0, and 0,0,0,0 against
\* 255,255,255,255 gives 510.
C5_DiffIsIntegerRoot ==
  (pc = "returned" /\ Len(mem[1]) = Len(mem[0])) =>
    LET a == mem[1]
        b == mem[0]
        r == ret[1].d
        sum == SquareSum(a, b, Len(a))
    IN /\ ~ret[1].panicked
       /\ r >= 0 /\ r * r <= sum /\ (r + 1) * (r + 1) > sum
       /\ diff(b, a) = ret[1]
       /\ a = b => r = 0
       /\ (a = <<0, 0, 0, 0>> /\ b = <<255, 255, 255, 255>>) => r = 510

C5_Witness ==
  /\ pc = "returned"
  /\ mem[1] = <<0, 0, 0, 0>>
  /\ mem[0] = <<255, 255, 255, 255>>
  /\ ret = <<[panicked |-> FALSE, d |-> 510]>>

\* C6: diff on buffers of different lengths always fails loudly, whether b
\* is shorter or longer than a.
C6_LengthMismatchPanics ==
  (pc = "returned" /\ Len(mem[1]) # Len(mem[0])) => ret[1].panicked

\* C7: at every point of the loop the population has PopSize genomes, and
\* every genome (of the population and of the children made so far) carries
\* a non-negative fitness equal to what the evaluator gives for its current
\* pixel content, which in the triangle variant is the rendering of its
\* current triangle list.
C7_FitnessIsFresh ==
  /\ Len(population) = PopSize
  /\ pc = "select" /\ Len(next) >= Len(population) => Len(next) = PopSize
  /\ \A i \in DOMAIN Genomes0 :
       LET d == Genomes0[i]
       IN /\ d.Fitness >= 0
          /\ d.Fitness = diff(mem[d.Gene], mem[target]).d
          /\ variant = "triangles" =>
               mem[d.Gene] = draw(Len(mem[target]), mem[d.Triangles])

C7_Witness ==
  /\ pc = "check"
  /\ generation >= 1
  /\ \E i, j \in DOMAIN population :
       population[i].Fitness = 0 /\ population[j].Fitness = 3

\* C8: crossover(a, b) picks mid in [0, N) and returns a child of N units
\* with child[i] = a[i] for i > mid and child[i] = b[i] for i <= mid; unit 0
\* always comes from b, and with mid = N-1 the child is a copy of b.
C8_CrossoverSplice ==
  pc = "returned" =>
    LET a == UnitsOf(mem, pool[1])
        b == UnitsOf(mem, pool[2])
        c == UnitsOf(mem, child[1])
        mid == ret[1]
        N == Len(a)
    IN /\ mid \in 0..(N - 1)
       /\ Len(c) = N
       /\ \A i \in 0..(N - 1) :
            c[i + 1] = IF i > mid THEN a[i + 1] ELSE b[i + 1]
       /\ c[1] = b[1]
       /\ mid = N - 1 => c = b

C8_Witness ==
  /\ pc = "returned"
  /\ Len(UnitsOf(mem, pool[1])) = MaxUnits
  /\ ret = <<1>>
  /\ UnitsOf(mem, child[1]) # UnitsOf(mem, pool[1])
  /\ UnitsOf(mem, child[1]) # UnitsOf(mem, pool[2])

\* the smallest index holding the largest fitness
FirstMax(s) ==
  CHOOSE i \in DOMAIN s :
    /\ \A j \in DOMAIN s : s[j].Fitness <= s[i].Fitness
    /\ \A j \in 1..(i - 1) : s[j].Fitness < s[i].Fitness

\* C9: getBest returns the genome at the smallest index holding the largest
\* fitness (index 0 when every fitness is 0) and leaves the population as
\* it was.
C9_GetBestFirstMax ==
  [][pc = "call" =>
       /\ bestDNA' = <<population[FirstMax(population)]>>
       /\ (\A i \in DOMAIN population : population[i].Fitness = 0) =>
            bestDNA' = <<population[1]>>
       /\ population' = population
       /\ mem' = mem
    ]_vars

C9_Witness ==
  /\ pc = "returned"
  /\ Len(population) = 3
  /\ population[1].Fitness < population[2].Fitness
  /\ population[3].Fitness = population[2].Fitness
  /\ bestDNA = <<population[2]>>

\* the children made so far, with the one in the making
Kids == next \o child

\* no child shares storage with the target, a genome of the population or of
\* the pool, or another child
NoSharing ==
  \A i \in DOMAIN Kids :
    /\ Addrs(Kids[i]) \cap ({target} \cup AddrsOf(population) \cup AddrsOf(pool)) = {}
    /\ \A j \in DOMAIN Kids : i # j => Addrs(Kids[i]) \cap Addrs(Kids[j]) = {}
    /\ Cardinality(Addrs(Kids[i])) = Len(AddrSeq(Kids[i]))

\* C10: while naturalSelection makes a child (crossover, mutate,
\* calcFitness) the target, every genome of the pool and of the population,
\* and every child made before keep their content and fitness, and no child
\* shares a triangle list or a pixel buffer with anything else.
C10_ChildrenOwnTheirStorage ==
  [][(pc \in {"select", "mutate", "fitness"} /\ pc' # "check") =>
       /\ target' = target
       /\ population' = population
       /\ pool' = pool
       /\ SubSeq(next', 1, Len(next)) = next
       /\ \A a \in {target} \cup AddrsOf(population) \cup AddrsOf(pool)
                   \cup AddrsOf(next) :
            a \in DOMAIN mem' /\ mem'[a] = mem[a]
       /\ NoSharing'
    ]_vars

C10_Witness ==
  /\ pc = "select"
  /\ variant = "triangles"
  /\ pool = population
  /\ Len(next) = 2
  /\ mem[next[1].Triangles] # mem[next[2].Triangles]
  /\ \A i \in DOMAIN pool : mem[pool[i].Triangles] # mem[next[2].Triangles]

====
